---- MODULE Spec2Model ----
(***************************************************************************)
(* Model of the online estimators of oalg: the classes Mean and gMean of   *)
(* src/__init__.py (arithmetic and geometric mean with sample variance,    *)
(* standard deviation, standard error and confidence interval).            *)
(*                                                                         *)
(* Numbers.  The code computes on numpy float64/int64 values.  The model   *)
(* computes exactly: a real number is c * e^p, or the square root of one,  *)
(* with c and p rationals, so that log, exp, sqrt, the casts to an integer *)
(* type and every division are real conversions and not the identity.      *)
(* Rounding of float64 is not modelled; "equal" below means equal as real  *)
(* numbers.  Division is Python 3's true division.                         *)
(***************************************************************************)
EXTENDS Integers, Sequences, FiniteSets, TLC

(***************************************************************************)
(* Rationals <<n, d>> in lowest terms with d > 0.  d = 0 encodes the       *)
(* IEEE specials: <<0,0>> is nan, <<1,0>> is inf, <<-1,0>> is -inf.        *)
(***************************************************************************)
Abs(n) == IF n < 0 THEN -n ELSE n

Sgn(n) == IF n < 0 THEN -1 ELSE IF n > 0 THEN 1 ELSE 0

RECURSIVE Gcd(_, _)
Gcd(a, b) == IF b = 0 THEN a ELSE Gcd(b, a % b)

Rat(n, d) ==
    IF d = 0 THEN <<Sgn(n), 0>>
    ELSE LET g == Gcd(Abs(n), Abs(d))
             s == IF d < 0 THEN -1 ELSE 1
         IN  <<(s * n) \div g, (s * d) \div g>>

Q(n) == <<n, 1>>

RNaN == <<0, 0>>

RFinite(a) == a[2] # 0

RAdd(a, b) == IF RFinite(a) /\ RFinite(b)
              THEN Rat(a[1] * b[2] + b[1] * a[2], a[2] * b[2]) ELSE RNaN

RNeg(a) == <<-a[1], a[2]>>

RSub(a, b) == RAdd(a, RNeg(b))

RMul(a, b) == IF RFinite(a) /\ RFinite(b)
              THEN Rat(a[1] * b[1], a[2] * b[2]) ELSE RNaN

\* IEEE division: x/0 is +-inf and 0/0 is nan (numpy warns, it does not raise)
RDiv(a, b) == IF RFinite(a) /\ RFinite(b)
              THEN Rat(a[1] * b[2], a[2] * b[1]) ELSE RNaN

\* the cast float -> integer drops the fractional part (rounds toward zero)
RTrunc(a) == Q(Sgn(a[1]) * (Abs(a[1]) \div a[2]))

(***************************************************************************)
(* Real numbers.  [c, p, f] is c * e^p when f = "val" and its square root  *)
(* when f = "sqrt"; zero is kept with p = 0.  The logarithm of an integer  *)
(* n >= 2 is irrational: it is kept as f = "ln" (ln n) or f = "lnsq"       *)
(* ((ln n)^2), and only ever cast to an integer.  A result that is not of  *)
(* one of these forms is marked Unrep; the inputs are chosen so that none  *)
(* arises (invariant Representable).                                       *)
(***************************************************************************)
Num(c, p, f) == IF RFinite(c) /\ c[1] = 0 /\ f \in {"val", "sqrt"}
                THEN [c |-> c, p |-> Q(0), f |-> "val"]
                ELSE [c |-> c, p |-> p, f |-> f]

NumQ(q) == Num(q, Q(0), "val")

NumI(n) == NumQ(Q(n))

\* e^q
NumE(q) == Num(Q(1), q, "val")

NaN == [c |-> RNaN, p |-> Q(0), f |-> "val"]

Unrep == [c |-> RNaN, p |-> RNaN, f |-> "val"]

IsNaN(a) == ~RFinite(a.c)

IsZero(a) == RFinite(a.c) /\ a.c[1] = 0 /\ a.f = "val"

\* sign of a number (ln n and (ln n)^2 are positive for n >= 2)
NSign(a) == Sgn(a.c[1])

NAdd(a, b) ==
    IF IsZero(a) THEN b
    ELSE IF IsZero(b) THEN a
    ELSE IF a.f = "val" /\ b.f = "val" /\ a.p = b.p
         THEN Num(RAdd(a.c, b.c), a.p, "val")
    ELSE Unrep

NNeg(a) == IF a.f = "val" THEN Num(RNeg(a.c), a.p, "val") ELSE Unrep

NSub(a, b) == NAdd(a, NNeg(b))

NMul(a, b) == IF a.f = "val" /\ b.f = "val"
              THEN Num(RMul(a.c, b.c), RAdd(a.p, b.p), "val") ELSE Unrep

NDiv(a, b) == IF a.f = b.f /\ a.f \in {"val", "sqrt"}
              THEN Num(RDiv(a.c, b.c), RSub(a.p, b.p), a.f)
              ELSE IF IsZero(a) /\ b.f = "sqrt" THEN a
              ELSE IF IsZero(b) /\ a.f = "sqrt" THEN Num(<<1, 0>>, Q(0), "val")
              ELSE Unrep

NSquare(a) == IF a.f = "val" THEN NMul(a, a)
              ELSE IF a.f = "ln" THEN [a EXCEPT !.f = "lnsq"]
              ELSE Unrep

\* numpy.sqrt: nan for a negative argument
NSqrt(a) == IF a.f # "val" THEN Unrep
            ELSE IF IsNaN(a) \/ NSign(a) < 0 THEN NaN
            ELSE Num(a.c, RDiv(a.p, Q(2)), "sqrt")

\* numpy.exp of a rational
NExp(a) == IF a.f = "val" /\ a.p = Q(0) THEN NumE(a.c) ELSE Unrep

\* numpy.log of a positive number: log(e^p) = p, log(n) is kept as ln n
NLog(a) == IF a.f = "val" /\ a.c = Q(1) THEN NumQ(a.p)
           ELSE IF a.f = "val" /\ a.p = Q(0) /\ a.c[2] = 1 /\ a.c[1] >= 2
                THEN [c |-> a.c, p |-> Q(0), f |-> "ln"]
           ELSE Unrep

\* integer part of ln n: ln 2 = 0.693, ln 3 = 1.098, ln 4 = 1.386
FloorLn(n) == CASE n = 2 -> 0 [] n = 3 -> 1 [] n = 4 -> 1

\* integer part of (ln n)^2: 0.480, 1.206, 1.921
FloorLnSq(n) == CASE n = 2 -> 0 [] n = 3 -> 1 [] n = 4 -> 1

\* the cast of a float to an integer type
NTrunc(a) == IF a.f = "val" /\ a.p = Q(0) THEN NumQ(RTrunc(a.c))
             ELSE IF a.f = "ln" THEN NumI(FloorLn(a.c[1]))
             ELSE IF a.f = "lnsq" THEN NumI(FloorLnSq(a.c[1]))
             ELSE Unrep

IsInteger(a) == a.f = "val" /\ a.p = Q(0) /\ a.c[2] = 1

\* the cast of acc + x to an integer type, acc holding an integer
NAddTrunc(acc, x) ==
    IF x.f \in {"ln", "lnsq"} /\ IsInteger(acc) /\ NSign(acc) >= 0
    THEN NAdd(acc, NTrunc(x))
    ELSE NTrunc(NAdd(acc, x))

(***************************************************************************)
(* Values.  An argument of add or of the constructor is a Python scalar    *)
(* (iter = FALSE, shape <<>>) or a numpy array (iter = TRUE: it has        *)
(* __iter__), of kind "int" or "float", with its elements in data (one     *)
(* element for shape <<>>).  An ndarray of the instance is [kind, shape,   *)
(* data] with kind "int64" or "float64".                                   *)
(***************************************************************************)
PyScalar(kind, a) == [iter |-> FALSE, kind |-> kind, shape |-> <<>>, data |-> <<a>>]

PyArray(kind, shape, data) == [iter |-> TRUE, kind |-> kind, shape |-> shape, data |-> data]

\* the argument None
NoArg == [iter |-> FALSE, kind |-> "None", shape |-> <<>>, data |-> <<>>]

\* an attribute holding None
NoArray == [kind |-> "None", shape |-> <<>>, data |-> <<>>]

NdArray(kind, shape, data) == [kind |-> kind, shape |-> shape, data |-> data]

\* self._shape: None, or a tuple
NoShape == [none |-> TRUE, dims |-> <<>>]

Shape(dims) == [none |-> FALSE, dims |-> dims]

\* the dtype of numpy.array(value): a numpy.dtype instance
ArrayDtype(kind) == IF kind = "int" THEN "int64" ELSE "float64"

\* the element type numpy gives an array created or cast with dtype=d
\* (None is numpy's default, float64)
ElemKind(d) == IF d \in {"int", "int64"} THEN "int64" ELSE "float64"

\* type objects (int, float) can be called; numpy.dtype instances and None cannot
Callable(d) == d \in {"int", "float"}

Map1(F(_), s) == [i \in DOMAIN s |-> F(s[i])]

Map2(F(_, _), s, t) == [i \in DOMAIN s |-> F(s[i], t[i])]

\* array (op) Python number
MapK(F(_, _), s, k) == [i \in DOMAIN s |-> F(s[i], k)]

\* numpy.array(value)
AsArray(value) == NdArray(ArrayDtype(value.kind), value.shape, value.data)

\* numpy.zeros(shape, dtype=dtype)
Zeros(dims, d) ==
    NdArray(ElemKind(d), dims, [i \in 1..(IF dims = <<>> THEN 1 ELSE dims[1]) |-> NumI(0)])

\* ndarray.astype(dtype)
AsType(a, d) ==
    NdArray(ElemKind(d), a.shape,
            IF ElemKind(d) = "int64" /\ a.kind = "float64" THEN Map1(NTrunc, a.data)
            ELSE a.data)

\* what the in-place a += b of numpy does when a is an integer array and b a
\* float array depends on the numpy build:
\*   "same_kind" (numpy >= 1.10) raises TypeError,
\*   "unsafe"    (numpy <  1.10) casts a + b to the integer type
CastRules == {"same_kind", "unsafe"}

IAddRaises(casting, a, b) ==
    a.kind = "int64" /\ b.kind = "float64" /\ casting = "same_kind"

IAdd(a, b) ==
    IF a.kind = "int64" /\ b.kind = "float64"
    THEN [a EXCEPT !.data = Map2(NAddTrunc, a.data, b.data)]
    ELSE [a EXCEPT !.data = Map2(NAdd, a.data, b.data)]

(***************************************************************************)
(* class Mean.  An instance is [count, sigma, sigma2, shape, dtype]        *)
(* (self._count, ...).  Every method is an operator from the instance (and *)
(* its arguments) to [exc, self, ...]: exc is "" or the exception raised,  *)
(* self the instance as the call leaves it.                                *)
(***************************************************************************)
\* the check with "init_count is not None" alone, 0 and negative counts
\* counting as given
GivenCount_AnyCount(init_value, init_var, init_count) ==
      (IF init_count # <<>> THEN 1 ELSE 0)
    + (IF init_value # NoArg THEN 1 ELSE 0)
    + (IF init_var # NoArg THEN 1 ELSE 0)

\* how many of the three initial values count as given (lines 97-99)
GivenCount(init_value, init_var, init_count) ==
      (IF init_count # <<>> /\ init_count[1] > 0 THEN 1 ELSE 0)
    + (IF init_value # NoArg THEN 1 ELSE 0)
    + (IF init_var # NoArg THEN 1 ELSE 0)

\* int(init_count or 0)
CountOf(init_count) == IF init_count = <<>> THEN 0 ELSE init_count[1]

NoMean == [count |-> 0, sigma |-> NoArray, sigma2 |-> NoArray,
           shape |-> NoShape, dtype |-> "None"]

\* (count - 1) * init_var, without the term sigma**2/count
InitSigma2_NoSquareTerm(sigma, init_var, count) == NMul(NumI(count - 1), init_var)

\* (count - 1) * init_var + sigma**2/count, one element (lines 108-109)
InitSigma2(sigma, init_var, count) ==
    NAdd(NMul(NumI(count - 1), init_var), NDiv(NSquare(sigma), NumI(count)))

MeanInit(shape, dtype, init_value, init_var, init_count) ==
    LET count == CountOf(init_count)
        value == AsArray(init_value)
        sigma == IF count # 0
                 THEN NdArray(value.kind, value.shape, MapK(NMul, value.data, NumI(count)))
                 ELSE NoArray
        sigma2 == IF count # 0
                  THEN NdArray("float64", sigma.shape,
                         [i \in DOMAIN sigma.data |->
                            InitSigma2(sigma.data[i], init_var.data[i], count)])
                  ELSE NoArray
        init_shape == IF count # 0 THEN Shape(sigma.shape) ELSE NoShape
        init_dtype == IF count # 0 THEN sigma.kind ELSE "None"
    IN  IF GivenCount(init_value, init_var, init_count) \notin {0, 3}
        THEN [exc |-> "ValueError", self |-> NoMean]
        ELSE IF count # 0 /\ init_value = NoArg
        THEN [exc |-> "TypeError", self |-> NoMean]
        ELSE [exc |-> "",
              self |-> [count |-> count, sigma |-> sigma, sigma2 |-> sigma2,
                        shape |-> IF shape = NoShape THEN init_shape ELSE shape,
                        dtype |-> IF dtype # "None" THEN dtype ELSE init_dtype]]

\* the check without its branch for a scalar-shaped instance
MeanAddShape_NoScalarCheck(self, value) ==
    IF self.shape = NoShape
    THEN IF self.count = 0
         THEN [exc |-> "",
               self |-> [self EXCEPT !.shape = Shape(value.shape),
                                     !.sigma = Zeros(value.shape, self.dtype),
                                     !.sigma2 = Zeros(value.shape, self.dtype)]]
         ELSE [exc |-> "ValueError", self |-> self]
    ELSE IF self.shape # Shape(<<>>) /\ AsArray(value).shape # self.shape.dims
         THEN [exc |-> "ValueError", self |-> self]
         ELSE [exc |-> "", self |-> self]

\* the shape adopted from the value whenever count is 0, also when a shape is set
MeanAddShape_AdoptAtZero(self, value) ==
    IF self.count = 0
    THEN [exc |-> "",
          self |-> [self EXCEPT !.shape = Shape(value.shape),
                                !.sigma = Zeros(value.shape, self.dtype),
                                !.sigma2 = Zeros(value.shape, self.dtype)]]
    ELSE IF self.shape = NoShape THEN [exc |-> "ValueError", self |-> self]
    ELSE IF self.shape = Shape(<<>>)
    THEN IF value.iter THEN [exc |-> "ValueError", self |-> self]
         ELSE [exc |-> "", self |-> self]
    ELSE IF AsArray(value).shape # self.shape.dims
         THEN [exc |-> "ValueError", self |-> self]
         ELSE [exc |-> "", self |-> self]

\* lines 160-172: check the value, adopt the shape from it if needed
MeanAddShape(self, value) ==
    IF self.shape = NoShape
    THEN IF self.count = 0
         THEN [exc |-> "",
               self |-> [self EXCEPT !.shape = Shape(value.shape),
                                     !.sigma = Zeros(value.shape, self.dtype),
                                     !.sigma2 = Zeros(value.shape, self.dtype)]]
         ELSE [exc |-> "ValueError", self |-> self]
    ELSE IF self.shape = Shape(<<>>)
    THEN IF value.iter THEN [exc |-> "ValueError", self |-> self]
         ELSE [exc |-> "", self |-> self]
    ELSE IF AsArray(value).shape # self.shape.dims
         THEN [exc |-> "ValueError", self |-> self]
         ELSE [exc |-> "", self |-> self]

\* lines 173-177: adopt the data type from the first value
MeanAddDtype(self, value) ==
    IF self.count = 0 /\ self.dtype = "None"
    THEN LET dtype == IF value.iter THEN ArrayDtype(value.kind) ELSE value.kind
             s1 == [self EXCEPT !.dtype = dtype]
         IN  IF self.sigma = NoArray
             THEN [exc |-> "AttributeError", self |-> s1]
             ELSE [exc |-> "",
                   self |-> [s1 EXCEPT !.sigma = AsType(self.sigma, dtype),
                                       !.sigma2 = AsType(self.sigma2, dtype)]]
    ELSE [exc |-> "", self |-> self]

\* lines 179-182: add the new value
MeanAddValue(casting, self, value) ==
    LET v == AsArray(value)
        v2 == [v EXCEPT !.data = Map1(NSquare, v.data)]
    IN  IF self.sigma = NoArray THEN [exc |-> "TypeError", self |-> self]
        ELSE IF IAddRaises(casting, self.sigma, v) THEN [exc |-> "TypeError", self |-> self]
        ELSE [exc |-> "",
              self |-> [self EXCEPT !.sigma = IAdd(self.sigma, v),
                                    !.sigma2 = IAdd(self.sigma2, v2),
                                    !.count = self.count + 1]]

MeanAdd(casting, self, value) ==
    LET r1 == MeanAddShape(self, value)
        r2 == MeanAddDtype(r1.self, value)
    IN  IF r1.exc # "" THEN r1
        ELSE IF r2.exc # "" THEN r2
        ELSE MeanAddValue(casting, r2.self, value)

\* what an accessor returns: None, or a number or array [shape, data]
RetNone == [none |-> TRUE, shape |-> <<>>, data |-> <<>>]

RetVal(shape, data) == [none |-> FALSE, shape |-> shape, data |-> data]

Returns(ret) == [exc |-> "", ret |-> ret]

Raises(exc) == [exc |-> exc, ret |-> RetNone]

\* sigma2/(count - 1) - sigma**2/count/(count - 1), one element (lines 206-208)
VarFormula(sigma, sigma2, count) ==
    NSub(NDiv(sigma2, NumI(count - 1)),
         NDiv(NDiv(NSquare(sigma), NumI(count)), NumI(count - 1)))

MeanMean(self) ==
    IF self.count # 0
    THEN Returns(RetVal(self.sigma.shape, MapK(NDiv, self.sigma.data, NumI(self.count))))
    ELSE Returns(RetNone)

MeanVar(self) ==
    IF self.count # 0
    THEN IF self.count > 1
         THEN Returns(RetVal(self.sigma.shape,
                  [i \in DOMAIN self.sigma.data |->
                      VarFormula(self.sigma.data[i], self.sigma2.data[i], self.count)]))
         ELSE Returns(RetVal(self.sigma.shape, Map1(LAMBDA a : NumI(0), self.sigma.data)))
    ELSE Returns(RetNone)

\* numpy.sqrt(var), var being what self.var() gave (an exception of var()
\* propagates)
SqrtOfVar(var) ==
    IF var.exc # "" THEN var
    ELSE IF var.ret = RetNone THEN Returns(RetNone)
    ELSE Returns(RetVal(var.ret.shape, Map1(NSqrt, var.ret.data)))

MeanStd(self) == SqrtOfVar(MeanVar(self))

\* numpy.sqrt(var/self._count)
SqrtOfVarOverCount(var, count) ==
    IF var.ret = RetNone \/ count < 1 THEN Returns(RetNone)
    ELSE Returns(RetVal(var.ret.shape, Map1(NSqrt, MapK(NDiv, var.ret.data, NumI(count)))))

MeanStderr(self) == SqrtOfVarOverCount(MeanVar(self), self.count)

\* assert n == 1; return stderr, stderr: the pair (lo, hi)
CiOfStderr(stderr, n) ==
    IF n # 1 THEN [exc |-> "AssertionError", lo |-> RetNone, hi |-> RetNone]
    ELSE [exc |-> stderr.exc, lo |-> stderr.ret, hi |-> stderr.ret]

MeanCi(self, n) == CiOfStderr(MeanStderr(self), n)

(***************************************************************************)
(* class gMean.  An instance is [count, gamma, gamma2, shape, dtype].      *)
(***************************************************************************)
NogMean == [count |-> 0, gamma |-> NoArray, gamma2 |-> NoArray,
            shape |-> NoShape, dtype |-> "None"]

\* exp(2*gamma/count), one element
ExpTwoMean(gamma, count) == NExp(NDiv(NMul(NumI(2), gamma), NumI(count)))

gMeanInit(shape, dtype, init_value, init_var, init_count) ==
    LET count == CountOf(init_count)
        value == AsArray(init_value)
        gamma == IF count # 0
                 THEN NdArray("float64", value.shape,
                              MapK(NMul, Map1(NLog, value.data), NumI(count)))
                 ELSE NoArray
        gamma2 == IF count # 0
                  THEN NdArray("float64", gamma.shape,
                         [i \in DOMAIN gamma.data |->
                            NAdd(NDiv(NMul(NumI(count - 1), init_var.data[i]),
                                      ExpTwoMean(gamma.data[i], count)),
                                 NDiv(NSquare(gamma.data[i]), NumI(count)))])
                  ELSE NoArray
        init_shape == IF count # 0 THEN Shape(gamma.shape) ELSE NoShape
        init_dtype == IF count # 0 THEN gamma.kind ELSE "None"
    IN  IF GivenCount(init_value, init_var, init_count) \notin {0, 3}
        THEN [exc |-> "ValueError", self |-> NogMean]
        ELSE IF count # 0 /\ init_value = NoArg
        THEN [exc |-> "TypeError", self |-> NogMean]
        ELSE [exc |-> "",
              self |-> [count |-> count, gamma |-> gamma, gamma2 |-> gamma2,
                        shape |-> IF shape = NoShape THEN init_shape ELSE shape,
                        dtype |-> IF dtype # "None" THEN dtype ELSE init_dtype]]

\* lines 404-406: numpy.any(numpy.array(value) <= 0)
AnyNonPositive(value) == \E i \in DOMAIN value.data : NSign(value.data[i]) <= 0

\* lines 408-421
gMeanAddShape(self, value) ==
    IF self.shape = NoShape
    THEN IF self.count = 0
         THEN [exc |-> "",
               self |-> [self EXCEPT !.shape = Shape(value.shape),
                                     !.gamma = Zeros(value.shape, self.dtype),
                                     !.gamma2 = Zeros(value.shape, self.dtype)]]
         ELSE [exc |-> "ValueError", self |-> self]
    ELSE IF self.shape = Shape(<<>>)
    THEN IF value.iter THEN [exc |-> "ValueError", self |-> self]
         ELSE [exc |-> "", self |-> self]
    ELSE IF AsArray(value).shape # self.shape.dims
         THEN [exc |-> "ValueError", self |-> self]
         ELSE [exc |-> "", self |-> self]

\* lines 422-426
gMeanAddDtype(self, value) ==
    IF self.count = 0 /\ self.dtype = "None"
    THEN LET dtype == IF value.iter THEN ArrayDtype(value.kind) ELSE value.kind
             s1 == [self EXCEPT !.dtype = dtype]
         IN  IF self.gamma = NoArray
             THEN [exc |-> "AttributeError", self |-> s1]
             ELSE [exc |-> "",
                   self |-> [s1 EXCEPT !.gamma = AsType(self.gamma, dtype),
                                       !.gamma2 = AsType(self.gamma2, dtype)]]
    ELSE [exc |-> "", self |-> self]

\* lines 428-431: numpy.log gives a float64 array whatever the value's type
gMeanAddValue(casting, self, value) ==
    LET v == AsArray(value)
        logv == NdArray("float64", v.shape, Map1(NLog, v.data))
        logv2 == NdArray("float64", v.shape, Map1(NSquare, logv.data))
    IN  IF self.gamma = NoArray THEN [exc |-> "TypeError", self |-> self]
        ELSE IF IAddRaises(casting, self.gamma, logv) THEN [exc |-> "TypeError", self |-> self]
        ELSE [exc |-> "",
              self |-> [self EXCEPT !.gamma = IAdd(self.gamma, logv),
                                    !.gamma2 = IAdd(self.gamma2, logv2),
                                    !.count = self.count + 1]]

\* the check for non-positive values made after the shape and the data type
\* were adopted
gMeanAdd_CheckLate(casting, self, value) ==
    LET r1 == gMeanAddShape(self, value)
        r2 == gMeanAddDtype(r1.self, value)
    IN  IF r1.exc # "" THEN r1
        ELSE IF r2.exc # "" THEN r2
        ELSE IF AnyNonPositive(value) THEN [exc |-> "ValueError", self |-> r2.self]
        ELSE gMeanAddValue(casting, r2.self, value)

gMeanAdd(casting, self, value) ==
    LET r1 == gMeanAddShape(self, value)
        r2 == gMeanAddDtype(r1.self, value)
    IN  IF AnyNonPositive(value) THEN [exc |-> "ValueError", self |-> self]
        ELSE IF r1.exc # "" THEN r1
        ELSE IF r2.exc # "" THEN r2
        ELSE gMeanAddValue(casting, r2.self, value)

\* mean() without the test of count
gMeanMean_Unguarded(self) ==
    Returns(RetVal(self.gamma.shape,
        Map1(NExp, MapK(NDiv, self.gamma.data, NumI(self.count)))))

gMeanMean(self) ==
    IF self.count # 0
    THEN Returns(RetVal(self.gamma.shape,
             Map1(NExp, MapK(NDiv, self.gamma.data, NumI(self.count)))))
    ELSE Returns(RetNone)

\* exp(2*gamma/count) * (gamma2/(count-1) - gamma**2/count/(count-1)), lines 460-463
gVarFormula(gamma, gamma2, count) ==
    NMul(ExpTwoMean(gamma, count), VarFormula(gamma, gamma2, count))

\* result[result < 0] = 0
ClampNegative(a) == IF NSign(a) < 0 THEN NumI(0) ELSE a

\* self._dtype(0)
DtypeZero(dtype) ==
    IF Callable(dtype) THEN Returns(RetVal(<<>>, <<NumI(0)>>)) ELSE Raises("TypeError")

\* result.tolist() if result.tolist() > 0 else self._dtype(0)
PositiveOrZero(result, dtype) ==
    IF ~IsNaN(result) /\ NSign(result) > 0 THEN Returns(RetVal(<<>>, <<result>>))
    ELSE DtypeZero(dtype)

gMeanVar(self) ==
    IF self.count # 0
    THEN IF self.shape = Shape(<<>>)
         THEN IF self.count > 1
              THEN PositiveOrZero(gVarFormula(self.gamma.data[1], self.gamma2.data[1],
                                              self.count), self.dtype)
              ELSE DtypeZero(self.dtype)
         ELSE IF self.count > 1
              THEN Returns(RetVal(self.gamma.shape,
                       [i \in DOMAIN self.gamma.data |->
                          ClampNegative(gVarFormula(self.gamma.data[i],
                                                    self.gamma2.data[i], self.count))]))
              ELSE Returns(RetVal(self.gamma.shape, Map1(LAMBDA a : NumI(0), self.gamma.data)))
    ELSE Returns(RetNone)

gMeanStd(self) == SqrtOfVar(gMeanVar(self))

\* self.std() / numpy.sqrt(self._count - 1), var and std being what self.var()
\* and self.std() gave
StdOverSqrtCountLessOne(var, std, count) ==
    IF var.exc # "" THEN var
    ELSE IF var.ret = RetNone \/ count < 1 THEN Returns(RetNone)
    ELSE Returns(RetVal(std.ret.shape, MapK(NDiv, std.ret.data, NSqrt(NumI(count - 1)))))

gMeanStderr(self) == StdOverSqrtCountLessOne(gMeanVar(self), gMeanStd(self), self.count)

gMeanCi(self, n) == CiOfStderr(gMeanStderr(self), n)

(***************************************************************************)
(* Bounds and inputs.                                                      *)
(***************************************************************************)
\* calls of add on one instance, counting the samples of a resumed one
MaxAdds == 3

\* largest init_count offered to the constructor
MaxInitCount == 2

\* longest list passed to an iteration helper
MaxItems == 3

\* e^1 and e^2: positive floats whose logarithm is rational
E1 == NumE(Q(1))

E2 == NumE(Q(2))

Half == NumQ(Rat(1, 2))

FiveHalves == NumQ(Rat(5, 2))

\* values offered to Mean.add: Python ints and floats, arrays of shape (2,)
\* and (1,), and a 0-dimensional array
MeanValues ==
    { PyScalar("int", NumI(1)), PyScalar("int", NumI(2)),
      PyScalar("float", FiveHalves),
      PyArray("int", <<2>>, <<NumI(1), NumI(2)>>),
      PyArray("float", <<2>>, <<FiveHalves, Half>>),
      PyArray("int", <<1>>, <<NumI(1)>>),
      PyArray("float", <<>>, <<FiveHalves>>) }

\* values offered to gMean.add: the same kinds, some with an element <= 0,
\* and a 0-dimensional array
gMeanValues ==
    { PyScalar("int", NumI(0)), PyScalar("int", NumI(2)),
      PyScalar("float", E1), PyScalar("float", E2),
      PyArray("float", <<2>>, <<E1, E2>>),
      PyArray("float", <<2>>, <<E1, NumI(-1)>>),
      PyArray("float", <<1>>, <<E1>>),
      PyArray("float", <<>>, <<E1>>) }

Values(c) == IF c = "Mean" THEN MeanValues ELSE gMeanValues

\* the lists passed to imean (c = "Mean") and igmean (c = "gMean")
Iterables(c) == UNION {[1..n -> Values(c)] : n \in 0..MaxItems}

ShapeArgs == {NoShape, Shape(<<>>), Shape(<<2>>)}

DtypeArgs == {"None", "float"}

InitCounts == {<<>>} \cup {<<n>> : n \in -1..MaxInitCount}

\* init_value with an init_var of the same shape; for gMean the variance is a
\* multiple of init_value^2, as the variance of a geometric mean is
InitPairs(c) ==
    IF c = "Mean"
    THEN { <<PyScalar("int", NumI(2)), PyScalar("float", NumI(0))>>,
           <<PyScalar("float", FiveHalves), PyScalar("float", Half)>>,
           <<PyArray("float", <<2>>, <<FiveHalves, Half>>),
             PyArray("float", <<2>>, <<Half, NumI(0)>>)>> }
    ELSE { <<PyScalar("float", E1), PyScalar("float", NumI(0))>>,
           <<PyScalar("float", E1), PyScalar("float", Num(Rat(1, 2), Q(2), "val"))>>,
           <<PyArray("float", <<2>>, <<E1, E2>>),
             PyArray("float", <<2>>, <<Num(Rat(1, 2), Q(2), "val"), NumI(0)>>)>> }

\* the constructor's arguments: any of value and variance may be left out; a
\* shape given together with initial values is the shape of those values
CtorArgs(c) ==
    { a \in [shape : ShapeArgs, dtype : DtypeArgs, init_count : InitCounts,
             init_value : {NoArg} \cup {pr[1] : pr \in InitPairs(c)},
             init_var : {NoArg} \cup {pr[2] : pr \in InitPairs(c)}] :
        /\ (a.init_value # NoArg /\ a.init_var # NoArg)
              => <<a.init_value, a.init_var>> \in InitPairs(c)
        /\ (a.init_value # NoArg /\ a.shape # NoShape)
              => a.shape = Shape(a.init_value.shape) }

NoCtor == [shape |-> NoShape, dtype |-> "None", init_count |-> <<>>,
           init_value |-> NoArg, init_var |-> NoArg]

(***************************************************************************)
(* The state machine: one instance of one of the classes, and the calls    *)
(* made on it.                                                             *)
(***************************************************************************)
VARIABLES
    casting,   \* the cast rule of the numpy build (fixed)
    cls,       \* "Mean" or "gMean": the class of the instance; "" before the constructor
    phase,     \* "new": not constructed; "live"; "failed": the constructor raised;
               \* "returned": an iteration helper made the instance and returned
    self,      \* the instance
    fresh,     \* the instance was constructed without any argument
    offered,   \* the values passed to add, in order, when the instance was
               \* constructed without any argument (history of a fresh run)
    last       \* the last call: its arguments, what it raised or returned (lo
               \* and hi hold a returned pair), and the instance before it

vars == <<casting, cls, phase, self, fresh, offered, last>>

Call(op) == [op |-> op, ctor |-> NoCtor, value |-> NoArg, items |-> <<>>, n |-> 0,
             exc |-> "", ret |-> RetNone, lo |-> RetNone, hi |-> RetNone, pre |-> self]

Init ==
    /\ casting \in CastRules
    /\ cls = ""
    /\ phase = "new"
    /\ self = NoMean
    /\ fresh = FALSE
    /\ offered = <<>>
    /\ last = [op |-> "", ctor |-> NoCtor, value |-> NoArg, items |-> <<>>, n |-> 0,
               exc |-> "", ret |-> RetNone, lo |-> RetNone, hi |-> RetNone, pre |-> NoMean]

InitOf(c, a) ==
    IF c = "Mean"
    THEN MeanInit(a.shape, a.dtype, a.init_value, a.init_var, a.init_count)
    ELSE gMeanInit(a.shape, a.dtype, a.init_value, a.init_var, a.init_count)

AddOf(c, cast, s, value) ==
    IF c = "Mean" THEN MeanAdd(cast, s, value) ELSE gMeanAdd(cast, s, value)

\* for item in iterable: m.add(item) -- the instance after add was called with
\* each value of seq in turn, stopping at the first call that raises
RECURSIVE Feed(_, _, _, _)
Feed(c, cast, s, seq) ==
    IF seq = <<>> THEN [exc |-> "", self |-> s]
    ELSE LET r == AddOf(c, cast, s, Head(seq))
         IN  IF r.exc # "" THEN r ELSE Feed(c, cast, r.self, Tail(seq))

NoInstance(c) == IF c = "Mean" THEN NoMean ELSE NogMean

Accum1(c, s) == IF c = "Mean" THEN s.sigma ELSE s.gamma

Accum2(c, s) == IF c = "Mean" THEN s.sigma2 ELSE s.gamma2

\* no number of the instance left the forms the model computes exactly
RepresentableArray(a) == \A i \in DOMAIN a.data : a.data[i] # Unrep

RepresentableSelf(c, s) ==
    RepresentableArray(Accum1(c, s)) /\ RepresentableArray(Accum2(c, s))

\* Mean(...) or gMean(...)
Construct(c, a) ==
    /\ phase = "new"
    /\ LET r == InitOf(c, a)
       IN  /\ cls' = c
           /\ phase' = IF r.exc = "" THEN "live" ELSE "failed"
           /\ self' = r.self
           /\ fresh' = (a = NoCtor)
           /\ last' = [Call("__init__") EXCEPT !.ctor = a, !.exc = r.exc, !.pre = r.self]
    /\ UNCHANGED <<casting, offered>>

\* self.add(value)
Add(value) ==
    /\ phase = "live"
    /\ Len(offered) < MaxAdds
    /\ self.count < MaxAdds
    /\ LET r == AddOf(cls, casting, self, value)
       IN  /\ RepresentableSelf(cls, r.self)
           /\ self' = r.self
           /\ last' = [Call("add") EXCEPT !.value = value, !.exc = r.exc]
    /\ offered' = IF fresh THEN Append(offered, value) ELSE offered
    /\ UNCHANGED <<casting, cls, phase, fresh>>

MeanOf(c, s) == IF c = "Mean" THEN MeanMean(s) ELSE gMeanMean(s)

VarOf(c, s) == IF c = "Mean" THEN MeanVar(s) ELSE gMeanVar(s)

StdOf(c, s) == IF c = "Mean" THEN MeanStd(s) ELSE gMeanStd(s)

StderrOf(c, s) == IF c = "Mean" THEN MeanStderr(s) ELSE gMeanStderr(s)

CiOf(c, s, n) == IF c = "Mean" THEN MeanCi(s, n) ELSE gMeanCi(s, n)

\* an accessor reads the instance and assigns nothing
Accessed(op, r) ==
    /\ phase = "live"
    /\ last' = [Call(op) EXCEPT !.exc = r.exc, !.ret = r.ret]
    /\ UNCHANGED <<casting, cls, phase, self, fresh, offered>>

\* self.mean()
GetMean == Accessed("mean", MeanOf(cls, self))

\* self.var()
GetVar == Accessed("var", VarOf(cls, self))

\* self.std()
GetStd == Accessed("std", StdOf(cls, self))

\* self.stderr()
GetStderr == Accessed("stderr", StderrOf(cls, self))

CiOrders == {1, 2}

\* self.ci(n)
CiCalled(n, r) ==
    /\ phase = "live"
    /\ last' = [Call("ci") EXCEPT !.n = n, !.exc = r.exc, !.lo = r.lo, !.hi = r.hi]
    /\ UNCHANGED <<casting, cls, phase, self, fresh, offered>>

GetCi(n) == CiCalled(n, CiOf(cls, self, n))

\* what an iteration helper did: the exception it let through or the pair it
\* returned, and the instance m it made
Helped(exc, m, lo, hi) == [exc |-> exc, self |-> m, lo |-> lo, hi |-> hi]

\* return m.mean(), m.stderr() -- fed being what the loop of add left
MeanStderrPair(fed, mean, stderr) ==
    IF fed.exc # "" THEN Helped(fed.exc, fed.self, RetNone, RetNone)
    ELSE IF mean.exc # "" THEN Helped(mean.exc, fed.self, RetNone, RetNone)
    ELSE IF stderr.exc # "" THEN Helped(stderr.exc, fed.self, RetNone, RetNone)
    ELSE Helped("", fed.self, mean.ret, stderr.ret)

\* m = oalg.Mean(); for item in iterable: m.add(item); return m.mean(), m.stderr()
MeanFed(fed) == MeanStderrPair(fed, MeanMean(fed.self), MeanStderr(fed.self))

imean(cast, iterable) == MeanFed(Feed("Mean", cast, NoMean, iterable))

\* return m.gmean(), m.stderr() -- gMean defines mean, var, std, stderr, sem,
\* mspair, ci and __call__, and no gmean: the attribute lookup raises
gMeanFed(fed) ==
    IF fed.exc # "" THEN Helped(fed.exc, fed.self, RetNone, RetNone)
    ELSE Helped("AttributeError", fed.self, RetNone, RetNone)

igmean(cast, iterable) == gMeanFed(Feed("gMean", cast, NogMean, iterable))

\* an iteration helper was called on a list: it makes its own instance, and
\* the instance is gone when it returns or raises
Iterated(op, c, iterable, r) ==
    /\ phase = "new"
    /\ RepresentableSelf(c, r.self)
    /\ cls' = c
    /\ phase' = "returned"
    /\ self' = r.self
    /\ last' = [Call(op) EXCEPT !.items = iterable, !.exc = r.exc,
                                !.lo = r.lo, !.hi = r.hi, !.pre = NoInstance(c)]
    /\ UNCHANGED <<casting, fresh, offered>>

\* imean(iterable)
IMean(iterable) == Iterated("imean", "Mean", iterable, imean(casting, iterable))

\* igmean(iterable)
IGMean(iterable) == Iterated("igmean", "gMean", iterable, igmean(casting, iterable))

Next ==
    \/ \E c \in {"Mean", "gMean"} : \E a \in CtorArgs(c) : Construct(c, a)
    \/ \E value \in Values(cls) : Add(value)
    \/ GetMean
    \/ GetVar
    \/ GetStd
    \/ GetStderr
    \/ \E n \in CiOrders : GetCi(n)
    \/ \E iterable \in Iterables("Mean") : IMean(iterable)
    \/ \E iterable \in Iterables("gMean") : IGMean(iterable)

Spec == Init /\ [][Next]_vars

\* the model's arithmetic stays exact
Representable == phase = "live" => RepresentableSelf(cls, self)

(***************************************************************************)
(* Properties.                                                             *)
(***************************************************************************)
Accumulators(c, s) == <<s.count, Accum1(c, s), Accum2(c, s)>>

\* the last call was add(value) on an instance with an established shape, and
\* the shape of value is another one
ShapeMismatchOffered ==
    /\ last.op = "add"
    /\ last.pre.shape # NoShape
    /\ last.value.shape # last.pre.shape.dims

\* C1: an add whose value has another shape than the established one (a scalar
\* for an array-shaped instance, an array for a scalar-shaped one, an array of
\* another shape) raises, and count, accum1 and accum2 are as before the call,
\* for Mean and gMean.
C1_ShapeMismatchRejected ==
    ShapeMismatchOffered =>
        /\ last.exc # ""
        /\ Accumulators(cls, self) = Accumulators(cls, last.pre)

\* C1 witness: an array was offered to a scalar-shaped instance that already
\* holds a sample
C1_Witness ==
    /\ ShapeMismatchOffered
    /\ last.pre.shape = Shape(<<>>)
    /\ last.value.shape = <<2>>
    /\ last.pre.count >= 1
    /\ last.exc = "ValueError"

\* C2: gMean.add(value) with an element of value <= 0 raises ValueError and
\* leaves the whole instance (count, accumulators, shape, dtype) as it was,
\* also when the instance is still unconfigured.
C2_NonPositiveRejected ==
    (last.op = "add" /\ cls = "gMean" /\ AnyNonPositive(last.value)) =>
        /\ last.exc = "ValueError"
        /\ self = last.pre

\* C2 witness: a non-positive value offered to an unconfigured gMean
C2_Witness ==
    /\ last.op = "add"
    /\ cls = "gMean"
    /\ AnyNonPositive(last.value)
    /\ last.pre.shape = NoShape
    /\ last.pre.dtype = "None"
    /\ last.exc = "ValueError"

\* how many of init_count, init_value, init_var were passed (are not None)
Supplied(a) ==
    Cardinality({k \in {"init_count", "init_value", "init_var"} :
                    \/ k = "init_count" /\ a.init_count # <<>>
                    \/ k = "init_value" /\ a.init_value # NoArg
                    \/ k = "init_var" /\ a.init_var # NoArg})

\* the same, a count passed as 0 or negative counting as not passed
SuppliedPositive(a) ==
    Cardinality({k \in {"init_count", "init_value", "init_var"} :
                    \/ k = "init_count" /\ a.init_count # <<>> /\ a.init_count[1] > 0
                    \/ k = "init_value" /\ a.init_value # NoArg
                    \/ k = "init_var" /\ a.init_var # NoArg})

\* C3 as claimed: the constructor raises and makes no instance when one or two
\* of the three initial values are passed, whatever their values (0 and
\* negative counts included); it succeeds only with all three or none.  (Any
\* exception is taken for the configuration error here.)
C3_AsClaimed ==
    last.op = "__init__" =>
        /\ Supplied(last.ctor) \in {1, 2} => (last.exc # "" /\ phase = "failed")
        /\ phase = "live" => Supplied(last.ctor) \in {0, 3}

\* C3 amended: init_count counts as given only when it is > 0.  The
\* constructor raises ValueError exactly when one or two of the three count as
\* given; it makes an instance only when all three or none do, and none when
\* it raises.
C3_PartialTripleRejected ==
    last.op = "__init__" =>
        /\ last.exc = "ValueError" <=> SuppliedPositive(last.ctor) \in {1, 2}
        /\ phase = "live" => SuppliedPositive(last.ctor) \in {0, 3}
        /\ last.exc # "" => phase = "failed"

\* C3 witness: init_count = 0 alone makes a (fresh) instance, and a partial
\* triple was rejected
C3_Witness ==
    /\ last.op = "__init__"
    /\ \/ /\ last.ctor.init_count = <<0>>
          /\ Supplied(last.ctor) = 1
          /\ phase = "live"
       \/ /\ last.ctor.init_count = <<2>>
          /\ last.ctor.init_value # NoArg
          /\ last.ctor.init_var = NoArg
          /\ last.exc = "ValueError"

\* the last call constructed a Mean from the triple with init_count >= n
MeanResumedFrom(n) ==
    /\ last.op = "__init__"
    /\ cls = "Mean"
    /\ phase = "live"
    /\ last.ctor.init_count # <<>>
    /\ last.ctor.init_count[1] >= n

\* C4 as claimed: a Mean constructed from (init_count, init_value, init_var)
\* with init_count >= 1 has count = init_count, mean() = init_value and
\* var() = init_var.
C4_AsClaimed ==
    MeanResumedFrom(1) =>
        /\ self.count = last.ctor.init_count[1]
        /\ MeanMean(self).ret.data = last.ctor.init_value.data
        /\ MeanVar(self).ret.data = last.ctor.init_var.data

\* C4 amended: the same for init_count >= 2; for init_count = 1, count and
\* mean() are reproduced and var() is zero whatever init_var is.  In both
\* cases sigma = init_count * init_value.
C4_TripleReproduced ==
    MeanResumedFrom(1) =>
        /\ self.count = last.ctor.init_count[1]
        /\ self.sigma.data = MapK(NMul, last.ctor.init_value.data, NumI(self.count))
        /\ MeanMean(self).ret.data = last.ctor.init_value.data
        /\ self.count >= 2 => MeanVar(self).ret.data = last.ctor.init_var.data
        /\ self.count = 1 =>
              MeanVar(self).ret.data = Map1(LAMBDA a : NumI(0), last.ctor.init_var.data)

\* C4 witness: resumed with init_count = 2 and a non-zero variance
C4_Witness ==
    /\ MeanResumedFrom(2)
    /\ \E i \in DOMAIN last.ctor.init_var.data : ~IsZero(last.ctor.init_var.data[i])

\* what mean() or var() returned, passed on as a constructor argument: a float
\* for a scalar-shaped instance, an array otherwise
AsArg(ret) ==
    IF ret = RetNone THEN NoArg
    ELSE IF ret.shape = <<>> THEN PyScalar("float", ret.data[1])
    ELSE PyArray("float", ret.shape, ret.data)

\* cls(init_count=s.count, init_value=s.mean(), init_var=s.var())
ResumedFrom(c, s) ==
    IF VarOf(c, s).exc # "" THEN [exc |-> VarOf(c, s).exc, self |-> NoInstance(c)]
    ELSE InitOf(c, [shape |-> NoShape, dtype |-> "None", init_count |-> <<s.count>>,
                    init_value |-> AsArg(MeanOf(c, s).ret),
                    init_var |-> AsArg(VarOf(c, s).ret)])

\* chunk 1 (the first k values) fed to a fresh instance, a new instance resumed
\* from its (count, mean(), var()), and chunk 2 fed to that one
SplitRun(c, cast, seq, k) ==
    LET first == Feed(c, cast, InitOf(c, NoCtor).self, SubSeq(seq, 1, k))
        second == ResumedFrom(c, first.self)
    IN  IF first.exc # "" THEN first
        ELSE IF second.exc # "" THEN second
        ELSE Feed(c, cast, second.self, SubSeq(seq, k + 1, Len(seq)))

\* the instance is a fresh one that took every value of offered
WholeRun ==
    /\ phase = "live"
    /\ fresh
    /\ self.count = Len(offered)

AllFloats(seq) == \A i \in DOMAIN seq : seq[i].kind = "float"

\* C5 as claimed: for a sequence fed to one fresh instance, and any split of it
\* into two non-empty chunks, the split run (chunk 1, resume from the triple,
\* chunk 2) ends with the same count, mean() and var(), for Mean and gMean.
\* (Stated for sequences of floats only, which no integer cast touches.)
C5_AsClaimed ==
    (WholeRun /\ AllFloats(offered)) =>
        \A k \in 1..(Len(offered) - 1) :
            LET split == SplitRun(cls, casting, offered, k)
            IN  /\ split.exc = ""
                /\ split.self.count = self.count
                /\ MeanOf(cls, split.self) = MeanOf(cls, self)
                /\ VarOf(cls, split.self) = VarOf(cls, self)

RECURSIVE SumData(_)
SumData(seq) == IF seq = <<>> THEN NumI(0) ELSE NAdd(Head(seq).data[1], SumData(Tail(seq)))

\* sum/N
BatchMean(seq) == NDiv(SumData(seq), NumI(Len(seq)))

RECURSIVE SumSquaredDeviations(_, _)
SumSquaredDeviations(seq, m) ==
    IF seq = <<>> THEN NumI(0)
    ELSE NAdd(NSquare(NSub(Head(seq).data[1], m)), SumSquaredDeviations(Tail(seq), m))

\* the two-pass unbiased sample variance
BatchVar(seq) == NDiv(SumSquaredDeviations(seq, BatchMean(seq)), NumI(Len(seq) - 1))

AllScalars(seq) == \A i \in DOMAIN seq : ~seq[i].iter

\* C6 as claimed: N >= 2 scalars added one at a time to a fresh Mean: every one
\* is taken, mean() is the batch mean sum/N and var() the batch unbiased sample
\* variance.
C6_AsClaimed ==
    (phase = "live" /\ fresh /\ cls = "Mean" /\ AllScalars(offered) /\ Len(offered) >= 2) =>
        /\ self.count = Len(offered)
        /\ MeanMean(self) = Returns(RetVal(<<>>, <<BatchMean(offered)>>))
        /\ MeanVar(self) = Returns(RetVal(<<>>, <<BatchVar(offered)>>))

\* C7 as claimed: after one successful add(x) on a fresh instance, mean() is x
\* elementwise and var() is zero in the shape of x, for Mean and gMean.
C7_AsClaimed ==
    (phase = "live" /\ fresh /\ last.op = "add" /\ last.exc = "" /\ self.count = 1) =>
        /\ MeanOf(cls, self) = Returns(RetVal(last.value.shape, last.value.data))
        /\ VarOf(cls, self) =
              Returns(RetVal(last.value.shape, Map1(LAMBDA a : NumI(0), last.value.data)))

Accessors == {"mean", "var", "std", "stderr"}

\* C8: on an instance with count = 0, mean(), var(), std() and stderr() return
\* None and do not raise, for Mean and gMean.
C8_UnavailableAtZero ==
    (last.op \in Accessors /\ last.pre.count = 0) =>
        /\ last.exc = ""
        /\ last.ret = RetNone

\* C8 witness: stderr() called on a gMean constructed with a shape only
C8_Witness ==
    /\ last.op = "stderr"
    /\ cls = "gMean"
    /\ last.pre.count = 0
    /\ last.pre.shape = Shape(<<2>>)
    /\ last.ret = RetNone

\* C9: once the shape (the dtype) of an instance has a value, no call changes
\* it.
C9_ShapeDtypeImmutable ==
    [][phase = "live" =>
          /\ self.shape # NoShape => self'.shape = self.shape
          /\ self.dtype # "None" => self'.dtype = self.dtype]_vars

\* C9 witness: the shape was adopted from the first value, and later calls of
\* add, one of them rejected, went by
C9_Witness ==
    /\ fresh
    /\ Len(offered) = 3
    /\ self.count = 2
    /\ last.op = "add"
    /\ last.exc = ""
    /\ self.shape = Shape(offered[1].shape)

\* C10 as claimed: ci(n) with n # 1 raises and leaves the instance as it was;
\* ci(1) returns a pair with both components equal to stderr().
C10_AsClaimed ==
    last.op = "ci" =>
        /\ last.n # 1 => (last.exc = "AssertionError" /\ self = last.pre)
        /\ last.n = 1 =>
              /\ last.exc = ""
              /\ last.lo = StderrOf(cls, self).ret
              /\ last.hi = StderrOf(cls, self).ret

\* every element of what an accessor returned is a number >= 0
NonNegative(r) ==
    /\ r.exc = ""
    /\ r.ret # RetNone
    /\ \A i \in DOMAIN r.ret.data : ~IsNaN(r.ret.data[i]) /\ NSign(r.ret.data[i]) >= 0

\* C11 as claimed: on a gMean that took a sequence of strictly positive values
\* (count >= 1), var() returns a value that is >= 0 in every element.
C11_AsClaimed ==
    (phase = "live" /\ fresh /\ cls = "gMean" /\ self.count >= 1) =>
        NonNegative(gMeanVar(self))

\* every item is a strictly positive Python float
PositiveFloats(seq) ==
    \A i \in DOMAIN seq :
        seq[i].kind = "float" /\ ~seq[i].iter /\ ~AnyNonPositive(seq[i])

\* C12 as claimed: igmean(iterable) on a non-empty list of positive values
\* makes a fresh gMean, calls add once per item in order, and then returns
\* the pair (mean(), stderr()) of that instance without raising. (Stated for
\* lists of Python floats, every one of which add takes.)
C12_AsClaimed ==
    (last.op = "igmean" /\ last.items # <<>> /\ PositiveFloats(last.items)) =>
        /\ last.exc = ""
        /\ self = Feed("gMean", casting, NogMean, last.items).self
        /\ self.count = Len(last.items)
        /\ last.lo = gMeanMean(self).ret
        /\ last.hi = gMeanStderr(self).ret

\* the constructor was given a shape and none of init_count, init_value,
\* init_var
ShapeOnly(a) ==
    /\ a.shape # NoShape
    /\ a.init_count = <<>>
    /\ a.init_value = NoArg
    /\ a.init_var = NoArg

\* value has exactly the shape s: a scalar for (), an array of that shape
\* otherwise
OfShape(value, s) ==
    /\ value.shape = s.dims
    /\ s = Shape(<<>>) => ~value.iter

\* what a value adds to accum1: itself for Mean, its logarithm for gMean
Term(c, value) == IF c = "Mean" THEN value.data ELSE Map1(NLog, value.data)

\* C13 as claimed: on an instance constructed with a shape and no initial
\* values, the first add(v) with v of exactly that shape (strictly positive
\* for gMean) does not raise, and afterwards count = 1, accum1 = v and
\* accum2 = v^2 (log(v) and log(v)^2 for gMean) and the shape is as before.
C13_AsClaimed ==
    [][(/\ phase = "live"
        /\ last.op = "__init__"
        /\ ShapeOnly(last.ctor)
        /\ last'.op = "add"
        /\ OfShape(last'.value, self.shape)
        /\ cls = "gMean" => ~AnyNonPositive(last'.value))
       => (/\ last'.exc = ""
           /\ self'.count = 1
           /\ Accum1(cls, self') # NoArray
           /\ Accum1(cls, self').data = Term(cls, last'.value)
           /\ Accum2(cls, self').data = Map1(NSquare, Term(cls, last'.value))
           /\ self'.shape = self.shape)]_vars

\* every element of what an accessor returned is a number
WellDefined(ret) ==
    /\ ret # RetNone
    /\ \A i \in DOMAIN ret.data : ~IsNaN(ret.data[i])

\* C14 as claimed: on a gMean with count >= 1, stderr() returns a well-defined
\* value, std() divided by sqrt(count - 1), and the divisor is not zero.
\* (Stated where var() returns, which the failure of self._dtype(0) does not
\* touch.)
C14_AsClaimed ==
    (last.op = "stderr" /\ cls = "gMean" /\ self.count >= 1 /\ gMeanVar(self).exc = "") =>
        /\ last.exc = ""
        /\ WellDefined(last.ret)
        /\ ~IsZero(NSqrt(NumI(self.count - 1)))
        /\ last.ret.data = MapK(NDiv, gMeanStd(self).ret.data, NSqrt(NumI(self.count - 1)))
====
